---- MODULE Spec2Model ----
(***************************************************************************)
(* A model of src/sca25519.py: the trace parser (parse_output), the        *)
(* faulted-key generator (generate_faulted_keys, clamp,                    *)
(* generate_faulted_results with its on-disk cache) and the detectors      *)
(* check_key_shortening and check_safe_error.                              *)
(*                                                                         *)
(* Representation.  A Python bytes object is a sequence of bytes (0..255), *)
(* Python index j being index j+1 here.  A Python int of up to 256 bits is *)
(* the set of its set bit positions (a subset of 0..255): TLC's integers   *)
(* are 32 bits wide, so 2^256 cannot be held as a number.  On that         *)
(* representation x | y is the union, x & y the intersection, x ^ y the    *)
(* symmetric difference and (1 << n) - 1 the interval 0..n-1.              *)
(***************************************************************************)
EXTENDS Integers, Sequences, FiniteSets, TLC

VARIABLES
    \* clamp (one call)
    clamp_pc, clamp_in, clamp_out,
    \* check_key_shortening over generate_faulted_results
    x25519,                \* the external primitive: clamped scalar -> public key
    sim_results,           \* what parse_output(output_dir) yields
    cache_file,            \* faulted_results.json
    run,                   \* which run of the program this is
    ks_pc,
    key_result_dict,
    cache_at_load,         \* key_result_dict as loaded at the start of the pass
    produced,              \* raw candidates generate_faulted_keys has yielded
    yielded,               \* (clamped_key, resulting_public_key) pairs yielded
    derived,               \* arguments of the calls of the external primitive
    results_sim,
    seen_effective_keys,
    \* parse_output (one call, consumed to the end)
    dir,                   \* the directory output_dir names
    parse_pc,
    parse_out,             \* the SimulationResults yielded
    parse_err,             \* the exception raised, or "none"
    \* check_safe_error (one call)
    trace_1, trace_2,      \* what parse_output yields for the two directories
    se_pc,
    se_err,                \* the exception raised, or "none"
    se_report,             \* the lines printed after line 249
    \* generate_faulted_keys, the mask families (lines 67-87)
    original_key,
    ps_pc,
    bits_from_start,       \* the outer loop variable of line 75
    ps_yielded,            \* the candidates of the last batch, in yield order
    ps_pairs,              \* the (bits_from_start, bits_from_end) pairs gone through
    ps_full_key,           \* whether a prefix+suffix candidate so far equals original_key
    \* generate_faulted_keys, the corner two-byte family (lines 113-122)
    cn_pc,
    upper_num_bits,        \* the loop variable of line 113
    upper_pos,             \* how many combinations of line 114 have been gone through
    upper_bits,            \* the loop variable of line 114 in the last iteration
    cn_yielded,            \* the candidates of that iteration, in yield order
    cn_count               \* how many candidates the family has yielded so far

clampVars == <<clamp_pc, clamp_in, clamp_out>>

ksVars == <<x25519, sim_results, cache_file, run, ks_pc, key_result_dict,
            cache_at_load, produced, yielded, derived, results_sim,
            seen_effective_keys>>

parseVars == <<dir, parse_pc, parse_out, parse_err>>

seVars == <<trace_1, trace_2, se_pc, se_err, se_report>>

psVars == <<original_key, ps_pc, bits_from_start, ps_yielded, ps_pairs, ps_full_key>>

cnVars == <<cn_pc, upper_num_bits, upper_pos, upper_bits, cn_yielded, cn_count>>

vars == <<clampVars, ksVars, parseVars, seVars, psVars, cnVars>>

\* A component that a specification does not run stays switched off.
KsOff ==
    /\ x25519 = << >> /\ sim_results = << >> /\ cache_file = << >> /\ run = 0
    /\ ks_pc = "off" /\ key_result_dict = << >> /\ cache_at_load = << >>
    /\ produced = << >> /\ yielded = << >> /\ derived = << >>
    /\ results_sim = << >> /\ seen_effective_keys = << >>

ParseOff == dir = << >> /\ parse_pc = "off" /\ parse_out = << >> /\ parse_err = "none"

SeOff ==
    /\ trace_1 = << >> /\ trace_2 = << >> /\ se_pc = "off" /\ se_err = "none"
    /\ se_report = << >>

PsOff ==
    /\ original_key = << >> /\ ps_pc = "off" /\ bits_from_start = 0
    /\ ps_yielded = << >> /\ ps_pairs = {} /\ ps_full_key = FALSE

CnOff ==
    /\ cn_pc = "off" /\ upper_num_bits = 0 /\ upper_pos = 0 /\ upper_bits = << >>
    /\ cn_yielded = << >> /\ cn_count = 0

-----------------------------------------------------------------------------
(* Bytes and 256-bit integers *)

\* to_bytes(32, ...): every key, mask and public key is 32 bytes long.
KEY_BYTES == 32

KEY_BITS == 8 * KEY_BYTES

Pow2(n) == IF n = 0 THEN 1 ELSE IF n = 1 THEN 2 ELSE IF n = 2 THEN 4
           ELSE IF n = 3 THEN 8 ELSE IF n = 4 THEN 16 ELSE IF n = 5 THEN 32
           ELSE IF n = 6 THEN 64 ELSE 128

\* Bit b (0 = least significant) of the byte x.
ByteBit(x, b) == (x \div Pow2(b)) % 2

\* The byte whose set bits are the members of s (a subset of 0..7).
ByteOf(s) ==
    (IF 0 \in s THEN 1 ELSE 0) + (IF 1 \in s THEN 2 ELSE 0) +
    (IF 2 \in s THEN 4 ELSE 0) + (IF 3 \in s THEN 8 ELSE 0) +
    (IF 4 \in s THEN 16 ELSE 0) + (IF 5 \in s THEN 32 ELSE 0) +
    (IF 6 \in s THEN 64 ELSE 0) + (IF 7 \in s THEN 128 ELSE 0)

\* int.from_bytes(key, byteorder='little'): byte j weighs 256^j.
from_bytes_little(key) ==
    { i \in 0..(8 * Len(key) - 1) : ByteBit(key[(i \div 8) + 1], i % 8) = 1 }

\* int.from_bytes(key, byteorder='big'): byte j weighs 256^(len-1-j).
from_bytes_big(key) ==
    { i \in 0..(8 * Len(key) - 1) : ByteBit(key[Len(key) - (i \div 8)], i % 8) = 1 }

\* x.to_bytes(32, 'little') for an x below 2^256.
to_bytes_little(x) ==
    [j \in 1..KEY_BYTES |-> ByteOf({ b \in 0..7 : 8 * (j - 1) + b \in x })]

\* x.to_bytes(32, 'big') for an x below 2^256.
to_bytes_big(x) ==
    [j \in 1..KEY_BYTES |-> ByteOf({ b \in 0..7 : 8 * (KEY_BYTES - j) + b \in x })]

-----------------------------------------------------------------------------
(* clamp *)

\* key_int &= ~(1 << 255)
ClearHighestBit(x) == x \ {KEY_BITS - 1}

\* key_int |= (1 << 254)
SetSecondHighestBit(x) == x \cup {KEY_BITS - 2}

\* A clamp that masks the low bits with ~3 instead of ~7.
ClearLowestTwoBits(x) == x \ {0, 1}

\* key_int &= ~7
ClearLowestThreeBits(x) == x \ {0, 1, 2}

clamp(key) ==
    to_bytes_little(
        ClearLowestThreeBits(SetSecondHighestBit(ClearHighestBit(from_bytes_little(key)))))

\* The reference key of check_key_shortening.
untouched_key ==
    << 128, 101, 116, 186, 97, 98, 205, 88, 73, 48, 89, 71,
       54, 22, 53, 182, 231, 125, 124, 122, 131, 222, 56, 192,
       128, 116, 184, 201, 143, 212, 10, 67 >>

\* Values tried for the first and the last byte of clamp's argument: they
\* cover every combination of the bits that clamp touches.
EdgeBytes == {0, 7, 8, 63, 64, 127, 128, 199, 255}

\* Values tried for the 30 bytes in between.
FillBytes == {0, 165, 255}

ClampInputs ==
    { [j \in 1..KEY_BYTES |-> IF j = 1 THEN lo ELSE IF j = KEY_BYTES THEN hi ELSE mid] :
        lo \in EdgeBytes, hi \in EdgeBytes, mid \in FillBytes } \cup {untouched_key}

ClampInit ==
    /\ clamp_pc = "call"
    /\ clamp_in \in ClampInputs
    /\ clamp_out = << >>

ClampCall ==
    /\ clamp_pc = "call"
    /\ clamp_out' = clamp(clamp_in)
    /\ clamp_pc' = "return"
    /\ UNCHANGED <<clamp_in, ksVars, parseVars, seVars, psVars, cnVars>>

ClampNext == ClampCall

ClampOff == clamp_pc = "off" /\ clamp_in = << >> /\ clamp_out = << >>

ClampStart == ClampInit /\ KsOff /\ ParseOff /\ SeOff /\ PsOff /\ CnOff

SpecClamp == ClampStart /\ [][ClampNext]_vars

\* C7: for every 32-byte k, clamp(k) is 32 bytes long and, read as a
\* little-endian integer, has bit 255 clear, bit 254 set, bits 0..2 clear and
\* every bit 3..253 equal to the same bit of k.
C7_ClampBits ==
    clamp_pc = "return" =>
        /\ Len(clamp_out) = 32
        /\ \A j \in 1..32 : clamp_out[j] \in 0..255
        /\ clamp_out[32] \div 128 = 0
        /\ (clamp_out[32] \div 64) % 2 = 1
        /\ clamp_out[1] % 8 = 0
        /\ \A i \in 3..253 :
              (clamp_out[(i \div 8) + 1] \div Pow2(i % 8)) % 2
                  = (clamp_in[(i \div 8) + 1] \div Pow2(i % 8)) % 2

\* A key whose bits 0..2 and 255 are set and whose bit 254 is clear has been clamped.
C7_Witness ==
    /\ clamp_pc = "return"
    /\ clamp_in[1] = 199
    /\ clamp_in[32] = 128
    /\ clamp_in[2] = 165
    /\ clamp_out[1] = 192
    /\ clamp_out[32] = 64

-----------------------------------------------------------------------------
(* generate_faulted_results and check_key_shortening *)

\* bytes.hex(): two hexadecimal digits (0..15) a byte, the high one first.
\* A string of hexadecimal digits is the sequence of their values.
hex(b) ==
    [i \in 1..(2 * Len(b)) |->
        IF i % 2 = 1 THEN b[(i + 1) \div 2] \div 16 ELSE b[i \div 2] % 16]

\* bytes.fromhex()
fromhex(h) == [j \in 1..(Len(h) \div 2) |-> 16 * h[2 * j - 1] + h[2 * j]]

\* The most raw candidates one pass of the model draws from generate_faulted_keys.
MaxCandidates == 3

\* The most runs of the program in one behaviour.
MaxRuns == 2

\* i.to_bytes(32, 'little') and i.to_bytes(32, 'big') for a byte value i.
ByteLittle(i) == [j \in 1..KEY_BYTES |-> IF j = 1 THEN i ELSE 0]
ByteBig(i) == [j \in 1..KEY_BYTES |-> IF j = KEY_BYTES THEN i ELSE 0]

\* Raw candidates the pass may be handed: three keys of the byte-value sweep
\* of generate_faulted_keys, the first two of which clamp to the same key.
RawPool == {ByteLittle(0), ByteLittle(1), ByteBig(1)}

ClampedPool == { clamp(k) : k \in RawPool }

\* Public keys the external primitive may return.
PubKeyPool == { [j \in 1..KEY_BYTES |-> 17], [j \in 1..KEY_BYTES |-> 171] }

SimulationResult(a, h, i, r, o) ==
    [address |-> a, hit |-> h, instruction |-> i, result |-> r, output |-> o]

\* Trace directories tried by the key-shortening detector: none, one or both
\* of the public keys observed, at one or two addresses and hits.
ShortTraces ==
    LET P1 == hex([j \in 1..KEY_BYTES |-> 17])
        P2 == hex([j \in 1..KEY_BYTES |-> 171])
    IN  { << >>,
          << SimulationResult(<<1, 0>>, 1, 0, "ok", P1) >>,
          << SimulationResult(<<1, 0>>, 1, 0, "ok", P1),
             SimulationResult(<<1, 0>>, 2, 1, "ok", P2) >>,
          << SimulationResult(<<1, 0>>, 1, 0, "ok", P2),
             SimulationResult(<<2, 10>>, 1, 1, "ok", P2) >> }

EmptyDict == [k \in {} |-> 0]

\* d[k] = v on a Python dict.
DictSet(d, k, v) == [x \in (DOMAIN d) \cup {k} |-> IF x = k THEN v ELSE d[x]]

get_public_key_bytes_from_private_bytes(private_bytes) == x25519[private_bytes]

\* Lines 152-158: the index  output -> address -> set of hits.
RECURSIVE BuildResultsSim(_, _)
BuildResultsSim(obs, acc) ==
    IF obs = << >> THEN acc
    ELSE LET r == Head(obs)
             byAddr == IF r.output \in DOMAIN acc THEN acc[r.output] ELSE EmptyDict
             hits == IF r.address \in DOMAIN byAddr THEN byAddr[r.address] ELSE {}
         IN  BuildResultsSim(Tail(obs),
                 DictSet(acc, r.output, DictSet(byAddr, r.address, hits \cup {r.hit})))

\* A generator that forgets to store what it derived.
CacheInsertDropped(d, k, v) == d

\* Line 137: key_result_dict[clamped_key.hex()] = resulting_public_key.hex()
CacheInsert(d, k, v) == DictSet(d, k, v)

\* A generator that trusts nothing it loaded and derives every candidate again.
CacheNeverHits(d, k) == FALSE

\* Line 133: clamped_key.hex() in key_result_dict
CacheHit(d, k) == k \in DOMAIN d

\* The detector as the specification words it: a pair is skipped when an
\* earlier faulted key was already recorded for the same observed output.
SkipRecordedOutput(seen, faulted_key, result) ==
    \E i \in 1..Len(yielded) :
        yielded[i][1] \in DOMAIN seen /\ yielded[i][2] = result

\* Lines 166-167: if faulted_key in seen_effective_keys: continue
SkipRecorded(seen, faulted_key, result) == faulted_key \in DOMAIN seen

KsInit ==
    /\ x25519 \in [ClampedPool -> PubKeyPool]
    /\ sim_results \in ShortTraces
    /\ cache_file = [exists |-> FALSE, content |-> EmptyDict]
    /\ run = 1
    /\ ks_pc = "start"
    /\ key_result_dict = EmptyDict
    /\ cache_at_load = EmptyDict
    /\ produced = << >>
    /\ yielded = << >>
    /\ derived = << >>
    /\ results_sim = EmptyDict
    /\ seen_effective_keys = EmptyDict

\* check_key_shortening up to the first candidate: the index is built
\* (lines 152-158) and the generator loads the cache (lines 126-130).
KsLoad ==
    /\ ks_pc = "start"
    /\ results_sim' = BuildResultsSim(sim_results, EmptyDict)
    /\ seen_effective_keys' = EmptyDict
    /\ key_result_dict' = IF cache_file.exists THEN cache_file.content ELSE EmptyDict
    /\ cache_at_load' = IF cache_file.exists THEN cache_file.content ELSE EmptyDict
    /\ produced' = << >>
    /\ yielded' = << >>
    /\ derived' = << >>
    /\ ks_pc' = "loop"
    /\ UNCHANGED <<x25519, sim_results, cache_file, run, clampVars, parseVars, seVars, psVars, cnVars>>

\* One iteration of the loop of generate_faulted_results (lines 131-138)
\* with the body of the loop that consumes it (lines 164-168).
KsStep ==
    /\ ks_pc = "loop"
    /\ Len(produced) < MaxCandidates
    /\ \E faulted_key \in RawPool :
       \E clamped_key \in {clamp(faulted_key)} :
       \E clamped_hex \in {hex(clamped_key)} :
       \E resulting_public_key \in
             { IF CacheHit(key_result_dict, clamped_hex)
               THEN fromhex(key_result_dict[clamped_hex])
               ELSE get_public_key_bytes_from_private_bytes(clamped_key) } :
       \E result_hex \in {hex(resulting_public_key)} :
            /\ produced' = Append(produced, faulted_key)
            /\ key_result_dict' =
                  IF CacheHit(key_result_dict, clamped_hex) THEN key_result_dict
                  ELSE CacheInsert(key_result_dict, clamped_hex, result_hex)
            /\ derived' =
                  IF CacheHit(key_result_dict, clamped_hex) THEN derived
                  ELSE Append(derived, clamped_key)
            /\ yielded' = Append(yielded, <<clamped_key, resulting_public_key>>)
            /\ seen_effective_keys' =
                  IF /\ result_hex \in DOMAIN results_sim
                     /\ ~SkipRecorded(seen_effective_keys, clamped_key,
                                      resulting_public_key)
                  THEN DictSet(seen_effective_keys, clamped_key, results_sim[result_hex])
                  ELSE seen_effective_keys
    /\ UNCHANGED <<x25519, sim_results, cache_file, run, ks_pc, cache_at_load,
                   results_sim, clampVars, parseVars, seVars, psVars, cnVars>>

\* generate_faulted_keys is exhausted: the whole map is written (lines 139-140)
\* and the loop of check_key_shortening ends.
KsFinish ==
    /\ ks_pc = "loop"
    /\ cache_file' = [exists |-> TRUE, content |-> key_result_dict]
    /\ ks_pc' = "finished"
    /\ UNCHANGED <<x25519, sim_results, run, key_result_dict, cache_at_load,
                   produced, yielded, derived, results_sim, seen_effective_keys,
                   clampVars, parseVars, seVars, psVars, cnVars>>

\* The process has ended and the program is run again: nothing but the
\* cache file is left of the last run.
KsRunAgain ==
    /\ ks_pc = "finished"
    /\ run < MaxRuns
    /\ run' = run + 1
    /\ ks_pc' = "start"
    /\ key_result_dict' = EmptyDict
    /\ cache_at_load' = EmptyDict
    /\ produced' = << >>
    /\ yielded' = << >>
    /\ derived' = << >>
    /\ results_sim' = EmptyDict
    /\ seen_effective_keys' = EmptyDict
    /\ UNCHANGED <<x25519, sim_results, cache_file, clampVars, parseVars, seVars, psVars, cnVars>>

KsNext == KsLoad \/ KsStep \/ KsFinish \/ KsRunAgain

KsStart == KsInit /\ ClampOff /\ ParseOff /\ SeOff /\ PsOff /\ CnOff

SpecShortening == KsStart /\ [][KsNext]_vars

\* The clamped keys the pass has yielded so far.
YieldedKeys == { yielded[i][1] : i \in 1..Len(yielded) }

\* C1: once a pass has run to completion, every clamped key it produced is a
\* key of the persisted cache, one entry a distinct clamped key, mapped to the
\* hex of the primitive's result for it; and a pass that started from a
\* persisted cache has not called the primitive for any key that cache held.
C1_CachePersisted ==
    ks_pc = "finished" =>
        /\ cache_file.exists
        /\ \A k \in YieldedKeys :
              /\ hex(k) \in DOMAIN cache_file.content
              /\ cache_file.content[hex(k)] = hex(x25519[k])
        /\ Cardinality({ h \in DOMAIN cache_file.content :
                            \E k \in YieldedKeys : h = hex(k) })
              = Cardinality(YieldedKeys)
        /\ \A h \in DOMAIN cache_at_load :
              /\ h \in DOMAIN cache_file.content
              /\ cache_file.content[h] = cache_at_load[h]
        /\ \A i \in 1..Len(derived) : hex(derived[i]) \notin DOMAIN cache_at_load

\* A second pass has completed over a cache that held one of its keys and
\* lacked another: one call of the primitive for three candidates.
C1_Witness ==
    /\ ks_pc = "finished"
    /\ run = 2
    /\ Cardinality(DOMAIN cache_at_load) = 1
    /\ Len(yielded) = 3
    /\ Len(derived) = 1
    /\ \E k \in YieldedKeys : hex(k) \in DOMAIN cache_at_load

\* C8: within one pass the primitive is called at most once for a clamped key
\* and never for a key of the loaded cache, while one pair is yielded for
\* every raw candidate, in the candidates' order, repeats included, each pair
\* holding the clamped candidate and the primitive's result for it.
C8_DeriveOncePerKey ==
    ks_pc \in {"loop", "finished"} =>
        /\ Len(yielded) = Len(produced)
        /\ \A i \in 1..Len(yielded) :
              /\ yielded[i][1] = clamp(produced[i])
              /\ yielded[i][2] = x25519[yielded[i][1]]
        /\ \A i, j \in 1..Len(derived) : i # j => derived[i] # derived[j]
        /\ \A i \in 1..Len(derived) : hex(derived[i]) \notin DOMAIN cache_at_load

\* Two distinct raw candidates that clamp to one key, and the key again:
\* three pairs yielded, one call of the primitive.
C8_Witness ==
    /\ ks_pc = "loop"
    /\ run = 1
    /\ produced = << ByteLittle(0), ByteLittle(1), ByteLittle(0) >>
    /\ Len(yielded) = 3
    /\ yielded[1] = yielded[2]
    /\ Len(derived) = 1

\* The faulted keys recorded for the observed output o.
RecordedFor(o) ==
    { k \in DOMAIN seen_effective_keys :
        \E i \in 1..Len(yielded) : yielded[i][1] = k /\ hex(yielded[i][2]) = o }

\* C2 as claimed: for every observed output at most one faulted key is recorded.
C2_OneKeyPerOutput ==
    ks_pc \in {"loop", "finished"} =>
        \A o \in DOMAIN results_sim : Cardinality(RecordedFor(o)) <= 1

\* C2 as amended: the faulted keys recorded are exactly the yielded keys whose
\* public key's hex is a key of the trace index, each once, with the
\* address -> hits entry of that output; the keys recorded for one output
\* are all the yielded keys that derive to it.
C2_FirstWriterPerKey ==
    ks_pc \in {"loop", "finished"} =>
        /\ DOMAIN seen_effective_keys =
              { yielded[i][1] : i \in { n \in 1..Len(yielded) :
                                         hex(yielded[n][2]) \in DOMAIN results_sim } }
        /\ \A i \in 1..Len(yielded) :
              hex(yielded[i][2]) \in DOMAIN results_sim =>
                  seen_effective_keys[yielded[i][1]] = results_sim[hex(yielded[i][2])]
        /\ \A o \in DOMAIN results_sim :
              RecordedFor(o) = { k \in YieldedKeys : \E i \in 1..Len(yielded) :
                                    yielded[i][1] = k /\ hex(yielded[i][2]) = o }

\* Two distinct faulted keys that derive to the same observed output have
\* both been streamed, the first of them twice.
C2_Witness ==
    /\ ks_pc = "finished"
    /\ Len(yielded) = 3
    /\ yielded[1] = yielded[3]
    /\ yielded[1][1] # yielded[2][1]
    /\ yielded[1][2] = yielded[2][2]
    /\ hex(yielded[1][2]) \in DOMAIN results_sim
    /\ Cardinality(DOMAIN seen_effective_keys) = 2

-----------------------------------------------------------------------------
(* parse_output *)

(***************************************************************************)
(* The trace text is modelled as the sequence of the pieces of text the    *)
(* pattern of line 37 looks for, each on a line of its own:                *)
(*   marker        #####                                                   *)
(*   address       Address: 0x<hex digits>. Hit: <decimal digits>          *)
(*   instruction   Instruction: <decimal digits>                           *)
(*   result        Run result: <text>                                      *)
(*   output        Output (...): <hex digits>                              *)
(*   junk          any other line                                          *)
(* Between two of them the pattern has .+? under re.DOTALL, which matches  *)
(* any text, line breaks included, and as little of it as lets the rest    *)
(* match.                                                                  *)
(***************************************************************************)
Marker == [kind |-> "marker"]
AddressHit(a, h) == [kind |-> "address", address |-> a, hit |-> h]
InstructionLine(n) == [kind |-> "instruction", digits |-> n]
RunResult(r) == [kind |-> "result", text |-> r]
OutputLine(o) == [kind |-> "output", hexdigits |-> o]
Junk == [kind |-> "junk"]

\* int() of a string of decimal digits.
RECURSIVE int(_)
int(digits) ==
    IF digits = << >> THEN 0
    ELSE 10 * int(SubSeq(digits, 1, Len(digits) - 1)) + digits[Len(digits)]

\* The most pieces (well-formed blocks and malformed fragments) of a directory's text.
MaxPieces == 3

\* A well-formed five-field block.
Block(v) ==
    [wellformed |-> TRUE,
     tokens |-> << Marker, AddressHit(<<v>>, <<v>>), InstructionLine(<<0, v>>),
                   RunResult("ok"), OutputLine(<<v, v>>) >>]

\* Malformed and partial fragments: a block cut after its address line, a
\* block cut before its output line, a stray line.
Fragments ==
    { [wellformed |-> FALSE, tokens |-> << Marker, AddressHit(<<9>>, <<9>>) >>],
      [wellformed |-> FALSE,
       tokens |-> << Marker, AddressHit(<<9>>, <<9>>), InstructionLine(<<9>>),
                     RunResult("crash") >>],
      [wellformed |-> FALSE, tokens |-> << Junk >>] }

PieceOptions == { Block(1), Block(2) } \cup Fragments

RECURSIVE SeqsUpTo(_, _)
SeqsUpTo(S, n) ==
    IF n = 0 THEN { << >> }
    ELSE LET shorter == SeqsUpTo(S, n - 1)
         IN  shorter \cup { Append(q, x) : q \in shorter, x \in S }

File(txt, pieces) == [name_txt |-> txt, pieces |-> pieces]

\* Directories tried: a missing one, an empty one, and the texts of up to
\* MaxPieces pieces in one file or cut into two, each file's name ending in
\* ".txt" or not.
DirOptions ==
    { [exists |-> FALSE, files |-> << >>], [exists |-> TRUE, files |-> << >>] }
    \cup { [exists |-> TRUE, files |-> << File(t, p) >>] :
              t \in BOOLEAN, p \in SeqsUpTo(PieceOptions, MaxPieces) }
    \cup UNION { { [exists |-> TRUE,
                    files |-> << File(t1, SubSeq(p, 1, c)),
                                 File(t2, SubSeq(p, c + 1, Len(p))) >>] :
                      t1 \in BOOLEAN, t2 \in BOOLEAN, c \in 1..(Len(p) - 1) } :
                 p \in SeqsUpTo(PieceOptions, MaxPieces) }

RECURSIVE Flatten(_)
Flatten(pieces) ==
    IF pieces = << >> THEN << >> ELSE Head(pieces).tokens \o Flatten(Tail(pieces))

\* A reader that takes every file of the directory for a trace file.
AnyFileIsTrace(file) == TRUE

\* Line 33: filename.endswith(".txt")
IsTraceFile(file) == file.name_txt

\* Lines 31-35: the contents of the trace files, concatenated in listing order.
RECURSIVE ReadAll(_)
ReadAll(files) ==
    IF files = << >> THEN << >>
    ELSE (IF IsTraceFile(Head(files)) THEN Flatten(Head(files).pieces) ELSE << >>)
            \o ReadAll(Tail(files))

\* The first position from `from` on of a piece of the kind, 0 when there is none.
First(tokens, kind, from) ==
    LET at == { i \in from..Len(tokens) : tokens[i].kind = kind }
    IN  IF at = {} THEN 0 ELSE CHOOSE i \in at : \A j \in at : i <= j

\* Lines 37-47: re.findall and the SimulationResult of every match.  A match
\* starts at a marker and takes the nearest address line after it, the nearest
\* instruction line after that, then the nearest result and output lines; the
\* scan resumes after the match.
RECURSIVE FindAll(_, _)
FindAll(tokens, from) ==
    LET m == First(tokens, "marker", from)
        a == IF m = 0 THEN 0 ELSE First(tokens, "address", m + 1)
        i == IF a = 0 THEN 0 ELSE First(tokens, "instruction", a + 1)
        r == IF i = 0 THEN 0 ELSE First(tokens, "result", i + 1)
        o == IF r = 0 THEN 0 ELSE First(tokens, "output", r + 1)
    IN  IF o = 0 THEN << >>
        ELSE << SimulationResult(tokens[a].address, int(tokens[a].hit),
                                 int(tokens[i].digits), tokens[r].text,
                                 tokens[o].hexdigits) >>
             \o FindAll(tokens, o + 1)

\* A listing that answers a missing directory with an empty list.
ListingNeverFails(d) == FALSE

\* Line 32: os.listdir raises FileNotFoundError for a directory that is not there.
ListdirRaises(d) == ~d.exists

ParseInit ==
    /\ dir \in DirOptions
    /\ parse_pc = "call"
    /\ parse_out = << >>
    /\ parse_err = "none"

\* list(parse_output(output_dir)): the generator run to its end.
ParseOutput ==
    /\ parse_pc = "call"
    /\ IF ListdirRaises(dir)
       THEN parse_err' = "FileNotFoundError" /\ parse_out' = << >>
       ELSE parse_err' = "none" /\ parse_out' = FindAll(ReadAll(dir.files), 1)
    /\ parse_pc' = "done"
    /\ UNCHANGED <<dir, clampVars, ksVars, seVars, psVars, cnVars>>

ParseNext == ParseOutput

ParseStart == ParseInit /\ ClampOff /\ KsOff /\ SeOff /\ PsOff /\ CnOff

SpecParse == ParseStart /\ [][ParseNext]_vars

\* The observation a well-formed block stands for.
BlockObservation(piece) ==
    SimulationResult(piece.tokens[2].address, int(piece.tokens[2].hit),
                     int(piece.tokens[3].digits), piece.tokens[4].text,
                     piece.tokens[5].hexdigits)

RECURSIVE WellFormedOf(_)
WellFormedOf(pieces) ==
    IF pieces = << >> THEN << >>
    ELSE (IF Head(pieces).wellformed THEN << BlockObservation(Head(pieces)) >> ELSE << >>)
            \o WellFormedOf(Tail(pieces))

\* The observations of the well-formed blocks of the .txt files, in text order.
RECURSIVE ExpectedObservations(_)
ExpectedObservations(files) ==
    IF files = << >> THEN << >>
    ELSE (IF Head(files).name_txt THEN WellFormedOf(Head(files).pieces) ELSE << >>)
            \o ExpectedObservations(Tail(files))

\* C3: a text of N well-formed blocks and M malformed fragments yields exactly
\* the N blocks' observations, in text order, each with its own block's fields.
C3_OnlyWellFormedBlocks ==
    (parse_pc = "done" /\ dir.exists) =>
        parse_out = ExpectedObservations(dir.files)

\* Whether the directory holds a trace file.
HasTraceFile == \E i \in 1..Len(dir.files) : dir.files[i].name_txt

\* C4 as claimed: a missing directory, or one with no trace file, yields an
\* empty sequence and raises nothing.
C4_MissingOrEmptyIsEmpty ==
    (parse_pc = "done" /\ (~dir.exists \/ ~HasTraceFile)) =>
        parse_out = << >> /\ parse_err = "none"

\* C4 as amended: a directory with no trace file yields an empty sequence and
\* raises nothing; a missing directory raises FileNotFoundError and yields
\* nothing.
C4_EmptyIsEmptyMissingRaises ==
    parse_pc = "done" =>
        /\ (dir.exists /\ ~HasTraceFile) => (parse_out = << >> /\ parse_err = "none")
        /\ ~dir.exists => (parse_out = << >> /\ parse_err = "FileNotFoundError")
        /\ dir.exists => parse_err = "none"

\* A directory that holds a file with a well-formed block, but no .txt file,
\* has been parsed.
C4_Witness ==
    /\ parse_pc = "done"
    /\ dir.exists
    /\ Len(dir.files) = 1
    /\ ~dir.files[1].name_txt
    /\ \E i \in 1..Len(dir.files[1].pieces) : dir.files[1].pieces[i].wellformed
    /\ parse_out = << >>
    /\ parse_err = "none"

-----------------------------------------------------------------------------
(* check_safe_error *)

\* Lines 220-221: the length of the two arrays indexed by instruction.
ARRAY_SIZE == 1000000

\* The highest instruction index of the traces tried.
MaxInstruction == 1

\* Lines 231 and 233: the primitive's results for the keys 0x93.. and 0x6c..
correct_result_1 == [j \in 1..KEY_BYTES |-> 17]
correct_result_2 == [j \in 1..KEY_BYTES |-> 171]

\* Addresses "0x10" and "0x9" (as strings the first sorts before the second)
\* with the hits tried at them.
SeAddressHits == { << <<1, 0>>, 1 >>, << <<1, 0>>, 2 >>, << <<9>>, 1 >> }

SeOutputs == { hex(correct_result_1), hex(correct_result_2) }

\* What a trace may hold for one instruction index: nothing or one observation.
SeAt(i) ==
    { << >> } \cup
    { << SimulationResult(ah[1], ah[2], i, "ok", o) >> : ah \in SeAddressHits, o \in SeOutputs }

\* The traces tried: for every instruction index up to MaxInstruction at most one
\* observation, in the order of the indices.
RECURSIVE SeTraces(_)
SeTraces(n) ==
    IF n < 0 THEN { << >> }
    ELSE { t \o x : t \in SeTraces(n - 1), x \in SeAt(n) }

\* Lines 220-225: the array indexed by instruction; a later observation of an
\* index overwrites an earlier one.  An index is << >> (None) or << obs >>.
\* Every index above MaxInstruction holds None.
Ordered(results) ==
    [i \in 0..MaxInstruction |->
        LET at == { n \in 1..Len(results) : results[n].instruction = i }
        IN  IF at = {} THEN << >>
            ELSE << results[CHOOSE n \in at : \A k \in at : k <= n] >>]

\* A comparison that flags every position where some run is correct.
EitherCorrect(c1, c2) == c1 \/ c2

\* Line 244: (output 1 == correct 1) ^ (output 2 == correct 2)
ExactlyOneCorrect(c1, c2) == c1 # c2

\* An alignment check that also wants the two outputs equal.
SameObservation(r1, r2) ==
    r1.address = r2.address /\ r1.hit = r2.hit /\ r1.instruction = r2.instruction
        /\ r1.output = r2.output

\* Lines 240-242: the three assertions.
SamePosition(r1, r2) ==
    r1.address = r2.address /\ r1.hit = r2.hit /\ r1.instruction = r2.instruction

\* Lines 236-247: the loop over the two arrays from index i on, with the
\* flagged addresses so far.  It ends with the dict, or in AssertionError.
RECURSIVE SeLoop(_, _, _, _)
SeLoop(o1, o2, i, prone) ==
    IF i > MaxInstruction THEN [err |-> "none", prone |-> prone]
    ELSE IF o1[i] = << >> \/ o2[i] = << >> THEN SeLoop(o1, o2, i + 1, prone)
    ELSE LET r1 == o1[i][1]
             r2 == o2[i][1]
             hits == IF r1.address \in DOMAIN prone THEN prone[r1.address] ELSE {}
         IN  IF ~SamePosition(r1, r2) THEN [err |-> "AssertionError", prone |-> prone]
             ELSE IF ExactlyOneCorrect(r1.output = hex(correct_result_1),
                                       r2.output = hex(correct_result_2))
             THEN SeLoop(o1, o2, i + 1, DictSet(prone, r1.address, hits \cup {r1.hit}))
             ELSE SeLoop(o1, o2, i + 1, prone)

\* a < b for two Python strings of hexadecimal digits.
StrLess(a, b) ==
    \E n \in 0..Len(a) :
        /\ n <= Len(b)
        /\ \A k \in 1..n : a[k] = b[k]
        /\ \/ n = Len(a) /\ n < Len(b)
           \/ n < Len(a) /\ n < Len(b) /\ a[n + 1] < b[n + 1]

\* sorted() of a set of integers.
RECURSIVE SortedInts(_)
SortedInts(S) ==
    IF S = {} THEN << >>
    ELSE LET least == CHOOSE x \in S : \A y \in S : x <= y
         IN  << least >> \o SortedInts(S \ {least})

\* Lines 250-251: sorted(potentially_prone_addresses.items()), every address
\* with its sorted hits.
RECURSIVE SortedReport(_, _)
SortedReport(prone, left) ==
    IF left = {} THEN << >>
    ELSE LET least == CHOOSE a \in left : \A b \in left : a = b \/ StrLess(a, b)
         IN  << << least, SortedInts(prone[least]) >> >>
                \o SortedReport(prone, left \ {least})

SeInit ==
    /\ trace_1 \in SeTraces(MaxInstruction)
    /\ trace_2 \in SeTraces(MaxInstruction)
    /\ se_pc = "call"
    /\ se_err = "none"
    /\ se_report = << >>

\* check_safe_error(output_dir_1, output_dir_2), from the parsed traces on.
CheckSafeError ==
    /\ se_pc = "call"
    /\ IF \E n \in 1..Len(trace_1) : trace_1[n].instruction >= ARRAY_SIZE
       THEN se_err' = "IndexError" /\ se_report' = << >>
       ELSE IF \E n \in 1..Len(trace_2) : trace_2[n].instruction >= ARRAY_SIZE
       THEN se_err' = "IndexError" /\ se_report' = << >>
       ELSE \E res \in { SeLoop(Ordered(trace_1), Ordered(trace_2), 0, EmptyDict) } :
               /\ se_err' = res.err
               /\ se_report' = IF res.err = "none"
                               THEN SortedReport(res.prone, DOMAIN res.prone)
                               ELSE << >>
    /\ se_pc' = "done"
    /\ UNCHANGED <<trace_1, trace_2, clampVars, ksVars, parseVars, psVars, cnVars>>

SeNext == CheckSafeError

SeStart == SeInit /\ ClampOff /\ KsOff /\ ParseOff /\ PsOff /\ CnOff

SpecSafeError == SeStart /\ [][SeNext]_vars

\* Pairs of observations of the two traces at the same instruction index.
Aligned ==
    { p \in (1..Len(trace_1)) \X (1..Len(trace_2)) :
        trace_1[p[1]].instruction = trace_2[p[2]].instruction }

\* C5: when check_safe_error reports, (address, hit) is flagged if and only if
\* at some instruction index present in both traces exactly one of the two
\* observations equals its own run's correct public key; the report is sorted
\* by address and every address's hits are sorted ascending.
C5_FlaggedIffExactlyOneCorrect ==
    (se_pc = "done" /\ se_err = "none") =>
        /\ \A ah \in SeAddressHits :
              (\E n \in 1..Len(se_report) :
                    /\ se_report[n][1] = ah[1]
                    /\ \E k \in 1..Len(se_report[n][2]) : se_report[n][2][k] = ah[2])
              <=>
              (\E p \in Aligned :
                    /\ trace_1[p[1]].address = ah[1]
                    /\ trace_1[p[1]].hit = ah[2]
                    /\ (trace_1[p[1]].output = hex(correct_result_1))
                          # (trace_2[p[2]].output = hex(correct_result_2)))
        /\ \A n \in 1..Len(se_report) :
              /\ \E ah \in SeAddressHits : se_report[n][1] = ah[1]
              /\ Len(se_report[n][2]) > 0
              /\ \A k \in 1..Len(se_report[n][2]) :
                    \E ah \in SeAddressHits : ah = << se_report[n][1], se_report[n][2][k] >>
              /\ \A k \in 1..(Len(se_report[n][2]) - 1) :
                    se_report[n][2][k] < se_report[n][2][k + 1]
        /\ \A n \in 1..(Len(se_report) - 1) :
              StrLess(se_report[n][1], se_report[n + 1][1])

\* Two addresses are flagged, "0x10" before "0x9"; at index 0 only the first
\* run is correct, at index 1 only the second.
C5_Witness ==
    /\ se_pc = "done"
    /\ se_err = "none"
    /\ Len(se_report) = 2
    /\ se_report[1][1] = <<1, 0>>
    /\ se_report[2][1] = <<9>>
    /\ Len(trace_1) = 2
    /\ trace_1[1].output = hex(correct_result_1)
    /\ trace_1[2].output = hex(correct_result_2)
    /\ trace_2[1].output = hex(correct_result_1)
    /\ trace_2[2].output = hex(correct_result_2)
    /\ trace_1[1].address = <<9>>

\* C6: the assertion fails only when at some instruction index present in
\* both traces the two observations differ in address or hit; two traces that
\* agree in address and hit at every shared index never raise it, whatever
\* their outputs.
C6_AssertionOnlyOnMismatch ==
    se_pc = "done" =>
        /\ se_err \in {"none", "AssertionError"}
        /\ se_err = "AssertionError" =>
              \E p \in Aligned :
                  \/ trace_1[p[1]].address # trace_2[p[2]].address
                  \/ trace_1[p[1]].hit # trace_2[p[2]].hit
        /\ (\A p \in Aligned :
                /\ trace_1[p[1]].address = trace_2[p[2]].address
                /\ trace_1[p[1]].hit = trace_2[p[2]].hit)
              => se_err = "none"

\* Two traces with the same (address, hit, instruction) at both indices and
\* different outputs at both have been compared without an error.
C6_Witness ==
    /\ se_pc = "done"
    /\ se_err = "none"
    /\ Len(trace_1) = 2
    /\ Len(trace_2) = 2
    /\ \A n \in 1..2 :
          /\ trace_1[n].address = trace_2[n].address
          /\ trace_1[n].hit = trace_2[n].hit
          /\ trace_1[n].instruction = trace_2[n].instruction
          /\ trace_1[n].output # trace_2[n].output

-----------------------------------------------------------------------------
(* generate_faulted_keys: the mask families *)

\* a & b for two bytes.
ByteAnd(a, b) ==
    IF b = 255 THEN a
    ELSE IF b = 0 THEN 0
    ELSE ByteOf({ k \in 0..7 : ByteBit(a, k) = 1 /\ ByteBit(b, k) = 1 })

\* Line 86: bytes(a & b for a, b in zip(original_key, mask))
ApplyMask(key, mask) == [j \in 1..KEY_BYTES |-> ByteAnd(key[j], mask[j])]

\* Lines 69-71: (unshifted_mask << (i * block)).to_bytes(32, 'big') for every
\* block size and position, in the order of the list.
BlockMasks ==
    LET of(block) ==
            [n \in 1..(KEY_BITS \div block) |->
                to_bytes_big(((n - 1) * block)..((n - 1) * block + block - 1))]
    IN  of(8) \o of(32) \o of(64) \o of(128)

\* A start mask that is one bit short: (1 << 255 - bits_from_start) - 1.
start_of_mask_short(s) == (KEY_BITS - 1 - s)..(KEY_BITS - 1)

\* Line 80: ((1 << 256) - 1) ^ (1 << 256 - bits_from_start) - 1
start_of_mask(s) == (0..(KEY_BITS - 1)) \ (0..(KEY_BITS - s - 1))

\* Line 81: (1 << bits_from_end) - 1
end_of_mask(e) == 0..(e - 1)

\* An inner loop that also runs bits_from_end up to 256 - bits_from_start.
LastBitsFromEndFull(s) == KEY_BITS - s

\* Line 77: range(0, 256 - bits_from_start) ends at 255 - bits_from_start.
LastBitsFromEnd(s) == KEY_BITS - s - 1

\* Lines 77-79: the values of bits_from_end gone through for bits_from_start = s.
FirstBitsFromEnd(s) == IF s = 0 THEN 1 ELSE 0

\* Lines 77-87 for one value of bits_from_start: for every bits_from_end the
\* mask in big-endian, then in little-endian encoding, applied to the key.
PrefixSuffixBatch(key, s) ==
    [n \in 1..(2 * (LastBitsFromEnd(s) - FirstBitsFromEnd(s) + 1)) |->
        LET e == FirstBitsFromEnd(s) + ((n - 1) \div 2)
            mask == start_of_mask(s) \cup end_of_mask(e)
        IN  [bits_from_start |-> s,
             bits_from_end |-> e,
             order |-> IF n % 2 = 1 THEN "big" ELSE "little",
             key |-> ApplyMask(key, IF n % 2 = 1 THEN to_bytes_big(mask)
                                    ELSE to_bytes_little(mask))]]

\* Reference keys tried: the one of check_key_shortening and the key of 256 ones.
ReferenceKeys == { untouched_key, [j \in 1..KEY_BYTES |-> 255] }

PsInit ==
    /\ original_key \in ReferenceKeys
    /\ ps_pc = "blocks"
    /\ bits_from_start = 0
    /\ ps_yielded = << >>
    /\ ps_pairs = {}
    /\ ps_full_key = FALSE

\* The candidates of the contiguous-block masks (lines 69-71, 85-87).
PsBlocks ==
    /\ ps_pc = "blocks"
    /\ \E batch \in { [n \in 1..Len(BlockMasks) |->
                          [key |-> ApplyMask(original_key, BlockMasks[n])]] } :
          /\ ps_yielded' = batch
    /\ ps_pc' = "masks"
    /\ UNCHANGED <<original_key, bits_from_start, ps_pairs, ps_full_key,
                   clampVars, ksVars, parseVars, seVars, cnVars>>

\* One iteration of the loop of line 75 with the candidates of its masks.
PsPrefixSuffix ==
    /\ ps_pc = "masks"
    /\ bits_from_start < KEY_BITS
    /\ \E batch \in { PrefixSuffixBatch(original_key, bits_from_start) } :
          /\ ps_yielded' = batch
          /\ ps_pairs' = ps_pairs \cup
                { << bits_from_start, batch[n].bits_from_end >> : n \in 1..Len(batch) }
          /\ ps_full_key' =
                (ps_full_key \/ \E n \in 1..Len(batch) : batch[n].key = original_key)
    /\ bits_from_start' = bits_from_start + 1
    /\ UNCHANGED <<original_key, ps_pc, clampVars, ksVars, parseVars, seVars, cnVars>>

\* range(0, 256) is exhausted: every mask has been applied (line 87).
PsFinish ==
    /\ ps_pc = "masks"
    /\ bits_from_start = KEY_BITS
    /\ ps_pc' = "done"
    /\ ps_yielded' = << >>
    /\ UNCHANGED <<original_key, bits_from_start, ps_pairs, ps_full_key,
                   clampVars, ksVars, parseVars, seVars, cnVars>>

PsNext == PsBlocks \/ PsPrefixSuffix \/ PsFinish

PsStart == PsInit /\ ClampOff /\ KsOff /\ ParseOff /\ SeOff /\ CnOff

SpecPrefixSuffix == PsStart /\ [][PsNext]_vars

\* Bit p of the 256-bit value that the bytes x encode in the byte order.
BitAt(x, order, p) ==
    IF order = "big" THEN ByteBit(x[KEY_BYTES - (p \div 8)], p % 8)
    ELSE ByteBit(x[(p \div 8) + 1], p % 8)

\* The candidate keeps the highest s and the lowest e bits of the reference
\* key, read in the candidate's byte order, and has zeros in between.
KeepsPrefixSuffix(c) ==
    \A p \in 0..255 :
        BitAt(c.key, c.order, p) =
            IF p >= 256 - c.bits_from_start \/ p < c.bits_from_end
            THEN BitAt(original_key, c.order, p) ELSE 0

\* Every candidate of the last batch is the one its loop indices call for, and
\* every bits_from_end comes once in big-endian and once in little-endian.
BatchAsCalledFor ==
    (ps_pc = "masks" /\ bits_from_start > 0) =>
        /\ \A n \in 1..Len(ps_yielded) :
              /\ ps_yielded[n].bits_from_start = bits_from_start - 1
              /\ ps_yielded[n].bits_from_start + ps_yielded[n].bits_from_end \in 1..255
              /\ Len(ps_yielded[n].key) = 32
              /\ KeepsPrefixSuffix(ps_yielded[n])
        /\ \A n \in 1..(Len(ps_yielded) \div 2) :
              /\ ps_yielded[2 * n - 1].order = "big"
              /\ ps_yielded[2 * n].order = "little"
              /\ ps_yielded[2 * n - 1].bits_from_end = ps_yielded[2 * n].bits_from_end

\* C9 as claimed: for every pair (bitsFromStart, bitsFromEnd) with a sum in
\* 1..256 the family produces the candidate that keeps those bits; for a sum
\* of 256 that candidate is the whole reference key.  The pairs of one
\* bitsFromStart are due when the loop of line 75 has gone past it, those of
\* bitsFromStart = 256 when the loop has ended.
C9_EveryPairUpTo256 ==
    \A s \in 0..256 :
        ((ps_pc = "masks" /\ bits_from_start > s) \/ ps_pc = "done") =>
            \A e \in 0..256 :
                (s + e >= 1 /\ s + e <= 256) =>
                    IF s + e = 256 THEN ps_full_key ELSE << s, e >> \in ps_pairs

\* C9 as amended: the family goes through exactly the pairs with a sum in
\* 1..255, and for each of them yields the candidate that keeps the highest
\* bitsFromStart and the lowest bitsFromEnd bits and zeroes the rest, once for
\* the big-endian and once for the little-endian encoding of the mask.
C9_EveryPairUpTo255 ==
    /\ BatchAsCalledFor
    /\ ps_pc = "done" =>
          \A s \in 0..256 : \A e \in 0..256 :
              (<< s, e >> \in ps_pairs) <=> (s + e >= 1 /\ s + e <= 255)

\* The reference key of check_key_shortening with its highest 3 and lowest 2
\* bits kept, in little-endian encoding, has been yielded.
C9_Witness ==
    /\ ps_pc = "masks"
    /\ original_key = untouched_key
    /\ bits_from_start = 4
    /\ ps_yielded[6].bits_from_start = 3
    /\ ps_yielded[6].bits_from_end = 2
    /\ ps_yielded[6].order = "little"
    /\ ps_yielded[6].key = [j \in 1..32 |-> IF j = 32 THEN 64 ELSE 0]

-----------------------------------------------------------------------------
(* generate_faulted_keys: the corner two-byte family *)

\* itertools.combinations(range(lo, 8), r): the r-tuples of increasing members
\* of lo..7, in the order it yields them (lexicographic).
RECURSIVE combinations(_, _)
combinations(lo, r) ==
    IF r = 0 THEN << << >> >>
    ELSE IF 8 - lo < r THEN << >>
    ELSE LET with_lo == combinations(lo + 1, r - 1)
         IN  [n \in 1..Len(with_lo) |-> << lo >> \o with_lo[n]]
                 \o combinations(lo + 1, r)

\* Line 113: range(0, 8) ends at 7.
LastUpperNumBits == 7

\* Line 115: range(0, 8) ends at 7.
LastLowerNumBits == 7

\* Lines 115-116: the values lower_bits goes through, in order.
RECURSIVE LowerBitsUpTo(_)
LowerBitsUpTo(num_bits) ==
    IF num_bits < 0 THEN << >>
    ELSE LowerBitsUpTo(num_bits - 1) \o combinations(0, num_bits)

\* Lines 117-121: the bits of upper_bits, and those of lower_bits moved up by 248.
faulted_key(ub, lb) ==
    { ub[n] : n \in 1..Len(ub) } \cup { lb[n] + 248 : n \in 1..Len(lb) }

\* Lines 115-122 for one value of upper_bits.
CornerBatch(ub) ==
    LET lowers == LowerBitsUpTo(LastLowerNumBits)
    IN  [n \in 1..Len(lowers) |-> to_bytes_big(faulted_key(ub, lowers[n]))]

\* The generator has reached line 113.
CnInit ==
    /\ cn_pc = "corner"
    /\ upper_num_bits = 0
    /\ upper_pos = 0
    /\ upper_bits = << >>
    /\ cn_yielded = << >>
    /\ cn_count = 0

\* One iteration of the loop of line 114 with the candidates it yields.
CnUpperBits ==
    /\ cn_pc = "corner"
    /\ \E combs \in { combinations(0, upper_num_bits) } :
          /\ upper_pos < Len(combs)
          /\ upper_bits' = combs[upper_pos + 1]
          /\ \E batch \in { CornerBatch(combs[upper_pos + 1]) } :
                /\ cn_yielded' = batch
                /\ cn_count' = cn_count + Len(batch)
    /\ upper_pos' = upper_pos + 1
    /\ UNCHANGED <<cn_pc, upper_num_bits, clampVars, ksVars, parseVars, seVars, psVars>>

\* The combinations of one size are exhausted: the loop of line 113 moves on.
CnUpperNumBits ==
    /\ cn_pc = "corner"
    /\ upper_pos = Len(combinations(0, upper_num_bits))
    /\ upper_num_bits < LastUpperNumBits
    /\ upper_num_bits' = upper_num_bits + 1
    /\ upper_pos' = 0
    /\ UNCHANGED <<cn_pc, upper_bits, cn_yielded, cn_count,
                   clampVars, ksVars, parseVars, seVars, psVars>>

\* range(0, 8) is exhausted: the generator returns.
CnFinish ==
    /\ cn_pc = "corner"
    /\ upper_pos = Len(combinations(0, upper_num_bits))
    /\ upper_num_bits = LastUpperNumBits
    /\ cn_pc' = "done"
    /\ UNCHANGED <<upper_num_bits, upper_pos, upper_bits, cn_yielded, cn_count,
                   clampVars, ksVars, parseVars, seVars, psVars>>

CnNext == CnUpperBits \/ CnUpperNumBits \/ CnFinish

CnStart == CnInit /\ ClampOff /\ KsOff /\ ParseOff /\ SeOff /\ PsOff

SpecCorner == CnStart /\ [][CnNext]_vars

\* The 32 bytes with the byte first at index 0, the byte last at index 31 and
\* zeros in between.
CornerKey(first, last) ==
    [j \in 1..32 |-> IF j = 1 THEN first ELSE IF j = 32 THEN last ELSE 0]

\* The byte that holds the bits of the tuple.
ByteOfTuple(t) == ByteOf({ t[n] : n \in 1..Len(t) })

\* C10: for every subset of the 8 bits of the one edge byte and every subset
\* of the 8 bits of the other, the empty and the full subsets included, the
\* family yields the 32-byte candidate with exactly those bits in its edge
\* bytes and zeros elsewhere: an iteration of line 114 yields its subset with
\* each of the 256 subsets of the other byte, and the family as a whole yields
\* 256 x 256 candidates.
C10_EverySubsetPair ==
    /\ cn_yielded # << >> =>
          \A first \in 0..255 :
              \E n \in 1..Len(cn_yielded) :
                  cn_yielded[n] = CornerKey(first, ByteOfTuple(upper_bits))
    /\ cn_pc = "done" => cn_count = 256 * 256

====
